---- MODULE Spec2Model ----
(***************************************************************************)
(* Model of the batch mesh simplifier (src/mesh_simplifier/main.cpp).      *)
(*                                                                         *)
(* A file name is a sequence of one-character strings, a path a sequence   *)
(* of names, and the file system a function from the existing paths to     *)
(* what they hold.  The plugin registry, the mesh backend and the file     *)
(* system's answers (file missing, load raising, ...) are the environment: *)
(* each action draws them from small sets.                                 *)
(***************************************************************************)
EXTENDS Naturals, Sequences, FiniteSets, TLC

\* ------------------------------------------------------------------ bounds
\* At most MaxFiles files in the source tree the run starts from.
MaxFiles == 2
\* A path created while the traversal is under way, in a directory the
\* iterator has already opened, may be observed by the iterator only if it
\* has at most MaxDepth components.
MaxDepth == 3
\* At most MaxMeshes meshes in one input file.
MaxMeshes == 1
\* At most MaxFaces faces in a mesh whose simplification parameters are built,
\* of which at most MaxSelected are selected.
MaxFaces == 40
MaxSelected == 3

\* ---------------------------------------------------------------- strings
Str_in   == <<"i", "n">>
Str_out  == <<"o", "u", "t">>
Str_a3ds == <<"a", ".", "3", "d", "s">>
Str_a3DS == <<"a", ".", "3", "D", "S">>
Str_aobj == <<"a", ".", "o", "b", "j">>
Str_zobj == <<"z", ".", "o", "b", "j">>
Str_tpng == <<"t", ".", "p", "n", "g">>
Str_3ds  == <<"3", "d", "s">>
Str_3DS  == <<"3", "D", "S">>
Str_obj  == <<"o", "b", "j">>
Str_dotobj == <<".", "o", "b", "j">>

\* std::toupper on the characters that occur in the model's names
toupper(c) ==
  CASE c = "a" -> "A" [] c = "b" -> "B" [] c = "d" -> "D" [] c = "g" -> "G"
    [] c = "i" -> "I" [] c = "j" -> "J" [] c = "n" -> "N" [] c = "o" -> "O"
    [] c = "p" -> "P" [] c = "s" -> "S" [] c = "t" -> "T" [] c = "u" -> "U"
    [] c = "z" -> "Z" [] OTHER -> c

\* compare_case_insensitive with a fault: the characters are compared as they are
compare_case_sensitive(lhs, rhs) ==
  /\ Len(lhs) = Len(rhs)
  /\ \A i \in 1..Len(lhs) : lhs[i] = rhs[i]

\* bool compare_case_insensitive(std::string& lhs, std::string& rhs)
compare_case_insensitive(lhs, rhs) ==
  /\ Len(lhs) = Len(rhs)
  /\ \A i \in 1..Len(lhs) :
       lhs[i] = rhs[i] \/ toupper(lhs[i]) = toupper(rhs[i])

\* the check of the -e option: a leading '.' is added when it is missing
NormalizeExtension(opt) ==
  IF Len(opt) > 0 /\ opt[1] = "." THEN opt ELSE <<".">> \o opt

\* ------------------------------------------------------------------ paths
\* index of the last c in the character sequence s, 0 when there is none
LastIndexOf(s, c) ==
  LET hits == {i \in 1..Len(s) : s[i] = c}
  IN IF hits = {} THEN 0 ELSE CHOOSE i \in hits : \A j \in hits : j <= i

\* std::filesystem::path::extension() of a file name
extension(name) ==
  LET dot == LastIndexOf(name, ".")
  IN IF dot <= 1 \/ name = <<".", ".">> THEN <<>>
     ELSE SubSeq(name, dot, Len(name))

\* std::filesystem::path::replace_extension(replacement) on a file name
replace_extension(name, replacement) ==
  SubSeq(name, 1, Len(name) - Len(extension(name))) \o replacement

\* QFileInfo::suffix(): the characters after the last '.'
suffix(name) ==
  LET dot == LastIndexOf(name, ".")
  IN IF dot = 0 THEN <<>> ELSE SubSeq(name, dot + 1, Len(name))

filename(p) == p[Len(p)]

\* std::filesystem::path::parent_path()
parent_path(p) == SubSeq(p, 1, Len(p) - 1)

IsPrefix(a, p) == Len(a) <= Len(p) /\ SubSeq(p, 1, Len(a)) = a

\* length of the longest common prefix of two paths
RECURSIVE CommonLen(_, _)
CommonLen(p, q) ==
  IF p = <<>> \/ q = <<>> \/ Head(p) # Head(q) THEN 0
  ELSE 1 + CommonLen(Tail(p), Tail(q))

RECURSIVE DotDots(_)
DotDots(n) == IF n = 0 THEN <<>> ELSE << <<".", ".">> >> \o DotDots(n - 1)

\* std::filesystem::relative(p, base) on paths already in canonical form
relative(p, base) ==
  LET k == CommonLen(p, base)
  IN DotDots(Len(base) - k) \o SubSeq(p, k + 1, Len(p))

\* generic_string(): the components joined with '/'
RECURSIVE generic_string(_)
generic_string(p) ==
  IF p = <<>> THEN <<>>
  ELSE IF Len(p) = 1 THEN p[1]
  ELSE p[1] \o <<"/">> \o generic_string(Tail(p))

\* ------------------------------------------------------------ file system
\* what a path holds: kind is "dir" or "file"; gen tells where it comes
\* from ("pre": it was there before the run, "run": a directory the run
\* made, "mesh" / "tex": a file an export wrote); from is the source file an
\* export wrote it for
Pre(kind)  == [kind |-> kind, gen |-> "pre", from |-> <<>>]
RunDir     == [kind |-> "dir", gen |-> "run", from |-> <<>>]
Written(gen, src) == [kind |-> "file", gen |-> gen, from |-> src]

exists(f, p) == p \in DOMAIN f
is_directory(f, p) == p \in DOMAIN f /\ f[p].kind = "dir"

Restrict(f, S) == [p \in S |-> f[p]]
Put(f, p, v) == [q \in DOMAIN f \cup {p} |-> IF q = p THEN v ELSE f[q]]

\* std::filesystem::remove_all(p)
remove_all(f, p) == Restrict(f, {q \in DOMAIN f : ~IsPrefix(p, q)})

Prefixes(p) == {SubSeq(p, 1, n) : n \in 1..Len(p)}

\* std::filesystem::create_directories(p): every missing prefix becomes a
\* directory; a prefix that is a file makes it throw filesystem_error
create_directories_throws(f, p) ==
  \E q \in Prefixes(p) : q \in DOMAIN f /\ f[q].kind # "dir"

create_directories(f, p) ==
  [q \in DOMAIN f \cup Prefixes(p) |-> IF q \in DOMAIN f THEN f[q] ELSE RunDir]

\* the entries of directory d
Children(f, d) == {q \in DOMAIN f : Len(q) = Len(d) + 1 /\ IsPrefix(d, q)}

\* ---------------------------------------------------------------- registry
QuadricName == "Simplification: Quadric Edge Collapse Decimation"

\* the plugin registries a run is tried with: the extension tokens that have
\* an import plugin, those that have an export plugin, the filter names
Registries ==
  { [input |-> {Str_3ds, Str_obj},          output |-> {Str_obj}, filters |-> {QuadricName}],
    [input |-> {Str_3ds, Str_3DS, Str_obj}, output |-> {Str_obj}, filters |-> {QuadricName}],
    [input |-> {Str_3ds, Str_obj},          output |-> {},        filters |-> {QuadricName}],
    [input |-> {Str_3ds, Str_obj},          output |-> {Str_obj}, filters |-> {}] }

\* PluginManager::inputMeshPlugin, outputMeshPlugin, filterAction: a lookup
\* that finds nothing returns nullptr
inputMeshPlugin(pm, ext)  == IF ext \in pm.input THEN "plugin" ELSE "nullptr"
outputMeshPlugin(pm, ext) == IF ext \in pm.output THEN "plugin" ELSE "nullptr"
filterAction(pm, name)    == IF name \in pm.filters THEN "action" ELSE "nullptr"

\* ------------------------------------------------------------------ inputs
\* the values of the -e option
ExtensionOptions == {Str_3ds, Str_dotobj}

\* the files a source tree is made of, relative to the source root
RelFiles == { <<Str_a3ds>>, <<Str_a3DS>>, <<Str_zobj>>, <<Str_aobj, Str_a3ds>> }
Trees == {T \in SUBSET RelFiles : Cardinality(T) <= MaxFiles}

\* the -i and -o options, and whether the destination root already holds a
\* file (z.obj) of an earlier run
Layouts ==
  { [src |-> <<Str_in>>,          dst |-> <<Str_out>>,         stale |-> FALSE],
    [src |-> <<Str_in>>,          dst |-> <<Str_out>>,         stale |-> TRUE],
    [src |-> <<Str_in>>,          dst |-> <<Str_in, Str_out>>, stale |-> TRUE],
    [src |-> <<Str_in>>,          dst |-> <<Str_in>>,          stale |-> FALSE],
    [src |-> <<Str_out, Str_in>>, dst |-> <<Str_out>>,         stale |-> FALSE] }

\* the file system before the run
InitialFs(layout, tree) ==
  LET files == {layout.src \o r : r \in tree}
               \cup (IF layout.stale THEN {layout.dst \o <<Str_zobj>>} ELSE {})
      dirs  == Prefixes(layout.src)
               \cup UNION {Prefixes(parent_path(p)) : p \in files}
  IN [p \in files \cup dirs |-> IF p \in files THEN Pre("file") ELSE Pre("dir")]

\* ------------------------------------------------------ parameter builder
\* A non-negative float is held as [m, k]: the value m / 2^k, with m below
\* 2^24 (the 24 bits of a float's significand) unless the value is 0.
FloatBits == 24

\* a / d rounded to an integer, a tie going to the even one (the rounding of
\* IEEE 754 arithmetic)
RoundHalfEven(a, d) ==
  LET q == a \div d
      r == a % d
  IN IF 2 * r < d THEN q
     ELSE IF 2 * r > d THEN q + 1
     ELSE IF q % 2 = 0 THEN q ELSE q + 1

\* the least k with a * 2^k >= b * 2^(FloatBits - 1), for 0 < a < b * 2^FloatBits
RECURSIVE ScaleUp(_, _, _)
ScaleUp(a, b, k) ==
  IF a * 2^k >= b * 2^(FloatBits - 1) THEN k ELSE ScaleUp(a, b, k + 1)

\* the least s with a \div 2^s < 2^FloatBits
RECURSIVE ScaleDown(_, _)
ScaleDown(a, s) ==
  IF a \div 2^s < 2^FloatBits THEN s ELSE ScaleDown(a, s + 1)

\* the float quotient a / b of two integers that floats hold exactly
FloatDivide(a, b) ==
  IF a = 0 THEN [m |-> 0, k |-> 0]
  ELSE LET k == ScaleUp(a, b, 0)
       IN [m |-> RoundHalfEven(a * 2^k, b), k |-> k]

\* the float product of the int n (converted to float) and the float x
FloatTimesInt(n, x) ==
  LET exact == n * x.m
      s == ScaleDown(exact, 0)
  IN [m |-> RoundHalfEven(exact, 2^s) * 2^s, k |-> x.k]

\* the conversion of a float to int: the fraction is dropped
FloatToInt(x) == x.m \div 2^x.k

\* the clamp of the -f option (line 297) and its default
MinTargetFaceRatio == 1
MaxTargetFaceRatio == 100
DefaultTargetFaceRatio == 30
RatioDivisor == 100

\* line 343: float target_face_ratio = *target_face_ratio_parameter / 100.0f
target_face_ratio(parameter) == FloatDivide(parameter, RatioDivisor)

\* the mesh's face counts: cm.fn faces, of which cm.sfn are selected
NoFaces == [fn |-> 0, sfn |-> 0]
NoParameters == [TargetFaceNum |-> 0, Selected |-> FALSE, built |-> FALSE]

\* build_simplification_parameters with a fault: the selection is not looked
\* at when the target is computed
build_simplification_parameters_FromTotal(mesh_cm, ratio) ==
  [TargetFaceNum |-> FloatToInt(FloatTimesInt(mesh_cm.fn, ratio)),
   Selected |-> mesh_cm.sfn > 0,
   built |-> TRUE]

\* RichParameterList build_simplification_parameters(mesh_model,
\* target_face_ratio, quality_threshold), lines 172-208: the two parameters
\* that depend on the mesh.  RichInt takes an int: the float product is
\* converted by dropping its fraction.
build_simplification_parameters(mesh_cm, ratio) ==
  [TargetFaceNum |-> IF 0 < mesh_cm.sfn
                     THEN FloatToInt(FloatTimesInt(mesh_cm.sfn, ratio))
                     ELSE FloatToInt(FloatTimesInt(mesh_cm.fn, ratio)),
   Selected |-> mesh_cm.sfn > 0,
   built |-> TRUE]

\* ------------------------------------------------------------------- state
VARIABLES
  root_source_model_directory_path,  \* -i
  root_target_model_directory_path,  \* -o
  source_model_file_extension,       \* -e, with its leading '.'
  target_face_ratio_parameter,       \* -f, clamped to 1..100
  plugin_manager,                    \* the registry after load_plugins
  p_filter_action,                   \* line 368: "action" or "nullptr"
  fs,                                \* the file system
  fs0,                               \* the file system before the run
  pending,                           \* entries the iterator has yet to yield
  opened,                            \* directories the iterator has read
  visited,                           \* entries the iterator has yielded
  pc,                                \* where main is
  input_file_path,                   \* the entry in the pipeline
  mesh_document,                     \* its MeshDocument: the number of meshes
  cm,                                \* the face counts of its current mesh
  simplification_parameters,         \* lines 418-419
  output_file_path,                  \* line 439
  success_count,
  fail_count,
  log,                               \* the events given to the log category
  status,                            \* per entry: its state (section 4.4 of the spec)
  last,                              \* what happened to the entry in the pipeline
  ub                                 \* has the run gone through undefined behaviour

vars == << root_source_model_directory_path, root_target_model_directory_path,
           source_model_file_extension, target_face_ratio_parameter,
           plugin_manager, p_filter_action, fs, fs0,
           pending, opened, visited, pc, input_file_path, mesh_document, cm,
           simplification_parameters, output_file_path, success_count,
           fail_count, log, status, last, ub >>

config == << root_source_model_directory_path, root_target_model_directory_path,
             source_model_file_extension, target_face_ratio_parameter,
             plugin_manager, fs0 >>

NoPath == <<>>
\* NoDocument with a fault: the document is the one of the entry before, and
\* still holds its mesh
NoDocument_PreviousMesh == [meshes |-> 1]
\* line 402: MeshDocument mesh_document, made anew in each turn of the loop
NoDocument == [meshes |-> 0]
NoLast == [path |-> NoPath, s0 |-> 0, f0 |-> 0,
           imp |-> "none", simp |-> "none", mirror |-> "none", exp |-> "none"]

\* one event of the log: category.info / category.warn of a message
Event(sev, msg, f, s, reason, path, out) ==
  [sev |-> sev, msg |-> msg, fail |-> f, succ |-> s, reason |-> reason,
   path |-> path, out |-> out]
PlainEvent(msg) == Event("info", msg, 0, 0, "", <<>>, <<>>)

\* main up to line 367: the options are parsed, the plugins are loaded
Init ==
  /\ \E layout \in Layouts, tree \in Trees :
       /\ root_source_model_directory_path = layout.src
       /\ root_target_model_directory_path = layout.dst
       /\ fs = InitialFs(layout, tree)
  /\ fs0 = fs
  /\ \E opt \in ExtensionOptions : source_model_file_extension = NormalizeExtension(opt)
  /\ target_face_ratio_parameter = DefaultTargetFaceRatio
  /\ plugin_manager \in Registries
  /\ p_filter_action = "nullptr"
  /\ pending = {}
  /\ opened = {}
  /\ visited = {}
  /\ pc = "start"
  /\ input_file_path = NoPath
  /\ mesh_document = NoDocument
  /\ cm = NoFaces
  /\ simplification_parameters = NoParameters
  /\ output_file_path = NoPath
  /\ success_count = 0
  /\ fail_count = 0
  /\ log = <<>>
  /\ status = << >>
  /\ last = NoLast
  /\ ub = FALSE

\* ------------------------------------------------------------------- setup
\* ResetDestination with a fault: an existing destination root is kept as it is
ResetDestination_NoRemove(f, dst) == create_directories(f, dst)

\* lines 370-374: the destination root is removed when it exists, then made
ResetDestination(f, dst) ==
  create_directories(IF exists(f, dst) THEN remove_all(f, dst) ELSE f, dst)

\* main, lines 368-386: the filter lookup, the destination reset, the start
\* event, the counters, the construction of the directory iterator (which
\* throws filesystem_error when the source root is no directory)
Setup ==
  /\ pc = "start"
  /\ p_filter_action' = filterAction(plugin_manager, QuadricName)
  /\ LET src == root_source_model_directory_path
         dst == root_target_model_directory_path
         cleared == IF exists(fs, dst) THEN remove_all(fs, dst) ELSE fs
     IN IF create_directories_throws(cleared, dst)
        THEN /\ fs' = cleared
             /\ pc' = "crashed"
             /\ UNCHANGED << log, pending, opened >>
        ELSE /\ fs' = ResetDestination(fs, dst)
             /\ log' = Append(log, PlainEvent("simplifying starts"))
             /\ IF is_directory(fs', src)
                THEN /\ pc' = "loop"
                     /\ pending' = Children(fs', src)
                     /\ opened' = {src}
                ELSE /\ pc' = "crashed"
                     /\ UNCHANGED << pending, opened >>
  /\ success_count' = 0
  /\ fail_count' = 0
  /\ UNCHANGED << ub, config, cm, simplification_parameters, visited, input_file_path, mesh_document,
                  output_file_path, status, last >>

\* --------------------------------------------------------------- traversal
\* lines 394-396: does the entry pass the extension filter
MatchesFilter(p, filter) == compare_case_insensitive(extension(filename(p)), filter)

\* lines 387-392: the iterator yields a directory; the loop skips it and the
\* iterator goes down into it
IterateDirectory ==
  /\ pc = "loop"
  /\ \E e \in pending :
       /\ is_directory(fs, e)
       /\ pending' = (pending \ {e}) \cup Children(fs, e)
       /\ opened' = opened \cup {e}
       /\ visited' = visited \cup {e}
  /\ UNCHANGED << ub, config, cm, simplification_parameters, p_filter_action, fs, pc, input_file_path, mesh_document,
                  output_file_path, success_count, fail_count, log, status, last >>

\* lines 394-399: a file whose extension does not match is skipped
IterateSkip ==
  /\ pc = "loop"
  /\ \E e \in pending :
       /\ ~is_directory(fs, e)
       /\ ~MatchesFilter(e, source_model_file_extension)
       /\ pending' = pending \ {e}
       /\ visited' = visited \cup {e}
  /\ UNCHANGED << ub, config, cm, simplification_parameters, p_filter_action, fs, opened, pc, input_file_path,
                  mesh_document, output_file_path, success_count, fail_count, log,
                  status, last >>

\* IterateMatch with a fault: the iterator is not advanced past the entry
IterateMatch_NotAdvanced ==
  /\ pc = "loop"
  /\ \E e \in pending :
       /\ ~is_directory(fs, e)
       /\ MatchesFilter(e, source_model_file_extension)
       /\ pending' = pending
       /\ visited' = visited \cup {e}
       /\ input_file_path' = e
       /\ status' = (e :> "Discovered") @@ status
       /\ last' = [NoLast EXCEPT !.path = e, !.s0 = success_count, !.f0 = fail_count]
  /\ mesh_document' = NoDocument
  /\ cm' = NoFaces
  /\ simplification_parameters' = NoParameters
  /\ pc' = "import"
  /\ UNCHANGED << ub, config, p_filter_action, fs, opened, output_file_path,
                  success_count, fail_count, log >>

\* lines 394-402: a file whose extension matches enters the pipeline with a
\* new, empty MeshDocument
IterateMatch ==
  /\ pc = "loop"
  /\ \E e \in pending :
       /\ ~is_directory(fs, e)
       /\ MatchesFilter(e, source_model_file_extension)
       /\ pending' = pending \ {e}
       /\ visited' = visited \cup {e}
       /\ input_file_path' = e
       /\ status' = (e :> "Discovered") @@ status
       /\ last' = [NoLast EXCEPT !.path = e, !.s0 = success_count, !.f0 = fail_count]
  /\ mesh_document' = NoDocument
  /\ cm' = NoFaces
  /\ simplification_parameters' = NoParameters
  /\ pc' = "import"
  /\ UNCHANGED << ub, config, p_filter_action, fs, opened, output_file_path,
                  success_count, fail_count, log >>

\* lines 468-476: what main hands back when the counters stand at
\* success_count and fail_count: the event "simplifying ends", which names no
\* counter, and the return value 0
ExitStatus == 0
RunResult(successCount, failureCount) ==
  [summary |-> PlainEvent("simplifying ends"), return |-> ExitStatus]

\* lines 468-476: the traversal is over
LoopEnd ==
  /\ pc = "loop"
  /\ pending = {}
  /\ log' = Append(log, RunResult(success_count, fail_count).summary)
  /\ pc' = "done"
  /\ UNCHANGED << ub, config, cm, simplification_parameters, p_filter_action, fs, pending, opened, visited,
                  input_file_path, mesh_document, output_file_path, success_count,
                  fail_count, status, last >>

\* ------------------------------------------------------------ environment
\* what the file system answers for the input file when it is opened
FileStates == {"ok", "missing", "unreadable"}
\* how the filter's applyFilter ends
ApplyOutcomes == {"ok", "bad_alloc", "MLException"}
\* how the export plugin's save ends, and MeshModel::saveTextures ("none":
\* the mesh has no texture)
SaveOutcomes == {"ok", "MLException"}
TextureOutcomes == {"none", "ok", "MLException"}
\* the face counts of the mesh a load yields in a run of the batch loop
LoadedFaces == {[fn |-> MaxFaces, sfn |-> 0]}

\* paths made during the traversal that the iterator may (or may not) yield:
\* those that appear in a directory it has already read
Observable(new, old, src, seen) ==
  {p \in DOMAIN new \ DOMAIN old :
     IsPrefix(src, p) /\ parent_path(p) \in seen /\ Len(p) <= MaxDepth}

\* ------------------------------------------------------------------ import
\* bool import_mesh(input_file_name, plugin_manager, mesh_document): what it
\* returns, the meshes it leaves in the document, and why
import_mesh(path, pm, f, file_state, mesh_count, load_throws) ==
  IF ~exists(f, path) \/ file_state = "missing"
    THEN [ret |-> FALSE, meshes |-> 0, cond |-> "missing"]             \* line 119
  ELSE IF file_state = "unreadable"
    THEN [ret |-> FALSE, meshes |-> 0, cond |-> "unreadable"]          \* line 125
  ELSE IF inputMeshPlugin(pm, suffix(filename(path))) = "nullptr"
    THEN [ret |-> FALSE, meshes |-> 0, cond |-> "noplugin"]            \* line 135
  ELSE IF load_throws
    THEN [ret |-> TRUE, meshes |-> 0, cond |-> "loadraise"]            \* lines 160-169
  ELSE [ret |-> TRUE, meshes |-> mesh_count,
        cond |-> IF mesh_count = 0 THEN "zeromesh" ELSE "ok"]          \* line 169

\* FailEvent with a fault: the two counters are written in the other order
FailEvent_CountersSwapped(f, s, reason, path) ==
  Event("warn", "simplification fail", s, f, reason, path, <<>>)

\* lines 405-412, 421-428, 444-451 and 455-461: the per-file events
FailEvent(f, s, reason, path) ==
  Event("warn", "simplification fail", f, s, reason, path, <<>>)
SuccessEvent(f, s, path, out) ==
  Event("info", "simplification success", f, s, "", path, out)

\* main, lines 403-415: the import stage
Import ==
  /\ pc = "import"
  /\ \E file_state \in FileStates, mesh_count \in 0..MaxMeshes, load_throws \in BOOLEAN :
       LET r == import_mesh(input_file_path, plugin_manager, fs, file_state,
                            mesh_count, load_throws)
       IN /\ last' = [last EXCEPT !.imp = r.cond]
          /\ IF ~r.ret
             THEN /\ fail_count' = fail_count + 1
                  /\ log' = Append(log, FailEvent(fail_count', success_count,
                                                  "import error", input_file_path))
                  /\ status' = [status EXCEPT ![input_file_path] = "ImportFailed"]
                  /\ mesh_document' = NoDocument
                  /\ cm' = NoFaces
                  /\ pc' = "loop"
             ELSE /\ mesh_document' = [meshes |-> r.meshes]
                  /\ \E faces \in LoadedFaces :
                       cm' = IF r.meshes = 0 THEN NoFaces ELSE faces
                  /\ status' = [status EXCEPT ![input_file_path] = "Imported"]
                  /\ pc' = "simplify"
                  /\ UNCHANGED << fail_count, log >>
  /\ UNCHANGED << ub, config, simplification_parameters, p_filter_action, fs,
                  pending, opened, visited, input_file_path, output_file_path,
                  success_count >>

\* ---------------------------------------------------------------- simplify
\* MeshDocument::mm(): the current mesh, nullptr in a document without meshes
mm(doc) == IF doc.meshes = 0 THEN "nullptr" ELSE "mesh"

\* lines 417-419 read *mesh_document.mm(); line 217 reads *p_filter_action:
\* undefined behaviour when either is nullptr
SimplifyUndefined(doc, action) == mm(doc) = "nullptr" \/ action = "nullptr"

\* bool simplify(mesh_document, p_filter_action, parameters), lines 215-239
simplify(outcome) == outcome = "ok"

\* lines 417-419: the parameters built for the document's current mesh
\* (nothing is built from a mesh that is nullptr)
BuiltParameters(doc, mesh_cm, parameter) ==
  IF mm(doc) = "nullptr" THEN NoParameters
  ELSE build_simplification_parameters(mesh_cm, target_face_ratio(parameter))

\* main, lines 417-432: the simplify stage.  Where the behaviour is
\* undefined this is the outcome in which execution goes on.
Simplify ==
  /\ pc = "simplify"
  /\ \E outcome \in ApplyOutcomes :
       /\ last' = [last EXCEPT !.simp = outcome]
       /\ IF ~simplify(outcome)
          THEN /\ fail_count' = fail_count + 1
               /\ log' = Append(log, FailEvent(fail_count', success_count,
                                               "simplification error", input_file_path))
               /\ status' = [status EXCEPT ![input_file_path] = "SimplifyFailed"]
               /\ mesh_document' = NoDocument
               /\ cm' = NoFaces
               /\ simplification_parameters' = NoParameters
               /\ pc' = "loop"
          ELSE /\ status' = [status EXCEPT ![input_file_path] = "Simplified"]
               /\ simplification_parameters' =
                    BuiltParameters(mesh_document, cm, target_face_ratio_parameter)
               /\ pc' = "mirror"
               /\ UNCHANGED << fail_count, log, mesh_document, cm >>
  /\ ub' = (ub \/ SimplifyUndefined(mesh_document, p_filter_action))
  /\ UNCHANGED << config, p_filter_action, fs, pending, opened, visited,
                  input_file_path, output_file_path, success_count >>

\* the other outcome of the undefined behaviour: the process dies
SimplifyCrash ==
  /\ pc = "simplify"
  /\ SimplifyUndefined(mesh_document, p_filter_action)
  /\ last' = [last EXCEPT !.simp = "crash"]
  /\ pc' = "crashed"
  /\ ub' = (ub \/ TRUE)
  /\ UNCHANGED << config, cm, simplification_parameters, p_filter_action, fs, pending, opened, visited,
                  input_file_path, mesh_document, output_file_path, success_count,
                  fail_count, log, status >>

\* ------------------------------------------------------------------ mirror
\* lines 434-435: the output path before its extension is replaced
MirrorPath(input, src, dst) == dst \o relative(input, src)

\* line 439: the path handed to export_mesh
ObjPath(input, src, dst) ==
  LET out == MirrorPath(input, src, dst)
  IN parent_path(out) \o << replace_extension(filename(out), Str_dotobj) >>

\* MakeOutputDirectory with a fault: the directories are not made
MakeOutputDirectory_NotMade(f, input, src, dst) == f

\* line 437: the directories made for an input file
MakeOutputDirectory(f, input, src, dst) ==
  create_directories(f, parent_path(MirrorPath(input, src, dst)))

\* main, lines 434-440: the output path and its directory.  An uncaught
\* filesystem_error of create_directories ends the process.
PrepareExport ==
  /\ pc = "mirror"
  /\ LET src == root_source_model_directory_path
         dst == root_target_model_directory_path
         dir == parent_path(MirrorPath(input_file_path, src, dst))
     IN IF create_directories_throws(fs, dir)
        THEN /\ pc' = "crashed"
             /\ last' = [last EXCEPT !.mirror = "crash"]
             /\ UNCHANGED << fs, pending, output_file_path >>
        ELSE /\ fs' = MakeOutputDirectory(fs, input_file_path, src, dst)
             /\ output_file_path' = ObjPath(input_file_path, src, dst)
             /\ last' = [last EXCEPT !.mirror = "ok"]
             /\ pc' = "export"
             /\ \E obs \in SUBSET Observable(fs', fs, src, opened) :
                  pending' = pending \cup obs
  /\ UNCHANGED << ub, config, cm, simplification_parameters, p_filter_action, opened, visited, input_file_path,
                  mesh_document, success_count, fail_count, log, status >>

\* ------------------------------------------------------------------ export
\* lines 66-67: output_file_path truncated at its last '/'
OutputDirectoryString(chars) == SubSeq(chars, 1, LastIndexOf(chars, "/") - 1)

\* lines 69-70: what follows the last '.' of output_file_path
OutputExtension(chars) == SubSeq(chars, LastIndexOf(chars, ".") + 1, Len(chars))

\* the directory that OutputDirectoryString names
OutputDirectory(out) ==
  LET d == OutputDirectoryString(generic_string(out))
      hits == {q \in Prefixes(out) : generic_string(q) = d}
  IN IF hits = {} THEN <<>> ELSE CHOOSE q \in hits : TRUE

\* export_mesh with a fault: the catch block of lines 94-97 falls through to a
\* "return true" (as the one of import_mesh does)
export_mesh_CatchReturnsTrue(out, pm, f, input, save_outcome, texture_outcome) ==
  LET chars == generic_string(out)
      saved == Put(f, out, Written("mesh", input))
      texture == OutputDirectory(out) \o <<Str_tpng>>
  IN IF chars = <<>>
       THEN [ret |-> FALSE, fs |-> f, cond |-> "empty"]
     ELSE IF outputMeshPlugin(pm, OutputExtension(chars)) = "nullptr"
       THEN [ret |-> FALSE, fs |-> f, cond |-> "noplugin"]
     ELSE IF save_outcome = "MLException" \/ is_directory(f, out)
       THEN [ret |-> TRUE, fs |-> f, cond |-> "saveraise"]
     ELSE IF texture_outcome = "MLException"
       THEN [ret |-> TRUE, fs |-> saved, cond |-> "textureraise"]
     ELSE IF texture_outcome = "ok"
       THEN [ret |-> TRUE, fs |-> Put(saved, texture, Written("tex", input)),
             cond |-> "ok"]
     ELSE [ret |-> TRUE, fs |-> saved, cond |-> "ok"]

\* bool export_mesh(output_file_path, plugin_manager, mesh_document,
\* texture_quality), lines 56-98: what it returns, the file system it
\* leaves, and why.  input is the file the document was loaded from.
export_mesh(out, pm, f, input, save_outcome, texture_outcome) ==
  LET chars == generic_string(out)
      saved == Put(f, out, Written("mesh", input))
      texture == OutputDirectory(out) \o <<Str_tpng>>
  IN IF chars = <<>>
       THEN [ret |-> FALSE, fs |-> f, cond |-> "empty"]                 \* line 62
     ELSE IF outputMeshPlugin(pm, OutputExtension(chars)) = "nullptr"
       THEN [ret |-> FALSE, fs |-> f, cond |-> "noplugin"]              \* line 75
     ELSE IF save_outcome = "MLException" \/ is_directory(f, out)
       THEN [ret |-> FALSE, fs |-> f, cond |-> "saveraise"]             \* lines 89, 96
     ELSE IF texture_outcome = "MLException"
       THEN [ret |-> FALSE, fs |-> saved, cond |-> "textureraise"]      \* lines 90, 96
     ELSE IF texture_outcome = "ok"
       THEN [ret |-> TRUE, fs |-> Put(saved, texture, Written("tex", input)),
             cond |-> "ok"]                                             \* line 92
     ELSE [ret |-> TRUE, fs |-> saved, cond |-> "ok"]                   \* line 92

\* line 79 takes mesh_document.mm() and lines 84-90 read through it:
\* undefined behaviour when the document holds no mesh
ExportUndefined(out, pm, doc) ==
  /\ outputMeshPlugin(pm, OutputExtension(generic_string(out))) # "nullptr"
  /\ mm(doc) = "nullptr"

\* main, lines 442-464: the export stage.  Where the behaviour is undefined
\* this is the outcome in which execution goes on.
Export ==
  /\ pc = "export"
  /\ \E save_outcome \in SaveOutcomes, texture_outcome \in TextureOutcomes :
       LET r == export_mesh(output_file_path, plugin_manager, fs, input_file_path,
                            save_outcome, texture_outcome)
       IN /\ last' = [last EXCEPT !.exp = r.cond]
          /\ fs' = r.fs
          /\ IF ~r.ret
             THEN /\ fail_count' = fail_count + 1
                  /\ log' = Append(log, FailEvent(fail_count', success_count,
                                                  "export error", input_file_path))
                  /\ status' = [status EXCEPT ![input_file_path] = "ExportFailed"]
                  /\ UNCHANGED success_count
             ELSE /\ success_count' = success_count + 1
                  /\ log' = Append(log, SuccessEvent(fail_count, success_count',
                                                     input_file_path, output_file_path))
                  /\ status' = [status EXCEPT ![input_file_path] = "Exported"]
                  /\ UNCHANGED fail_count
  /\ \E obs \in SUBSET Observable(fs', fs, root_source_model_directory_path, opened) :
       pending' = pending \cup obs
  /\ mesh_document' = NoDocument
  /\ cm' = NoFaces
  /\ simplification_parameters' = NoParameters
  /\ pc' = "loop"
  /\ ub' = (ub \/ ExportUndefined(output_file_path, plugin_manager, mesh_document))
  /\ UNCHANGED << config, p_filter_action, opened, visited, input_file_path,
                  output_file_path >>

\* the other outcome of the undefined behaviour: the process dies
ExportCrash ==
  /\ pc = "export"
  /\ ExportUndefined(output_file_path, plugin_manager, mesh_document)
  /\ last' = [last EXCEPT !.exp = "crash"]
  /\ pc' = "crashed"
  /\ ub' = (ub \/ TRUE)
  /\ UNCHANGED << config, cm, simplification_parameters, p_filter_action, fs, pending, opened, visited,
                  input_file_path, mesh_document, output_file_path, success_count,
                  fail_count, log, status >>

\* ----------------------------------------------------------- specification
Next ==
  \/ Setup
  \/ IterateDirectory
  \/ IterateSkip
  \/ IterateMatch
  \/ Import
  \/ Simplify
  \/ SimplifyCrash
  \/ PrepareExport
  \/ Export
  \/ ExportCrash
  \/ LoopEnd

Spec == Init /\ [][Next]_vars

\* ------------------------------------------- the parameter builder by itself
\* The state of main at line 417 for one imported file, in/a.3ds, with the
\* -f option and the face counts of the mesh drawn from their ranges.
SelectionsOf(n) == {k \in 0..MaxSelected : k <= n}

InitParameters ==
  /\ root_source_model_directory_path = <<Str_in>>
  /\ root_target_model_directory_path = <<Str_out>>
  /\ source_model_file_extension = NormalizeExtension(Str_3ds)
  /\ target_face_ratio_parameter \in MinTargetFaceRatio..MaxTargetFaceRatio
  /\ plugin_manager = [input |-> {Str_3ds, Str_obj}, output |-> {Str_obj},
                       filters |-> {QuadricName}]
  /\ p_filter_action = filterAction(plugin_manager, QuadricName)
  /\ fs0 = InitialFs([src |-> <<Str_in>>, dst |-> <<Str_out>>, stale |-> FALSE],
                     {<<Str_a3ds>>})
  /\ fs = ResetDestination(fs0, <<Str_out>>)
  /\ pending = {}
  /\ opened = {<<Str_in>>}
  /\ visited = {<<Str_in, Str_a3ds>>}
  /\ pc = "simplify"
  /\ input_file_path = <<Str_in, Str_a3ds>>
  /\ mesh_document = [meshes |-> 1]
  /\ \E n \in 0..MaxFaces : \E k \in SelectionsOf(n) : cm = [fn |-> n, sfn |-> k]
  /\ simplification_parameters = NoParameters
  /\ output_file_path = NoPath
  /\ success_count = 0
  /\ fail_count = 0
  /\ log = << PlainEvent("simplifying starts") >>
  /\ status = (<<Str_in, Str_a3ds>> :> "Imported")
  /\ last = [NoLast EXCEPT !.path = <<Str_in, Str_a3ds>>, !.imp = "ok"]
  /\ ub = FALSE

\* main, lines 417-419: the parameters are built for the current mesh
BuildParameters ==
  /\ pc = "simplify"
  /\ ~simplification_parameters.built
  /\ simplification_parameters' =
       BuiltParameters(mesh_document, cm, target_face_ratio_parameter)
  /\ UNCHANGED << ub, config, cm, p_filter_action, fs, pending, opened, visited, pc,
                  input_file_path, mesh_document, output_file_path, success_count,
                  fail_count, log, status, last >>

NextParameters == BuildParameters

SpecParameters == InitParameters /\ [][NextParameters]_vars

\* ================================================================== claims
Src == root_source_model_directory_path
Dst == root_target_model_directory_path
Finished == pc \in {"done", "crashed"}

\* the files under the source root of file system f that pass the filter
MatchingFiles(f) ==
  {p \in DOMAIN f : /\ f[p].kind = "file"
                    /\ IsPrefix(Src, p)
                    /\ MatchesFilter(p, source_model_file_extension)}

\* the file system the batch loop starts on
FsAtLoopStart == ResetDestination(fs0, Dst)

\* C1: when the batch loop has ended, success_count + fail_count is the
\* number of files under the source root whose extension matches the filter
\* (counted on the tree the loop starts on; stated for the runs that go
\* through no undefined behaviour).
C1_CountersSumToMatchingFiles ==
  (pc = "done" /\ ~ub) =>
    success_count + fail_count = Cardinality(MatchingFiles(FsAtLoopStart))


\* the events of the log that name source file p
EventsOf(p) == {i \in 1..Len(log) : log[i].path = p}
\* the log holds exactly one event for p, and it is ev
LoggedOnce(p, ev) == EventsOf(p) # {} /\ \A i \in EventsOf(p) : log[i] = ev /\ Cardinality(EventsOf(p)) = 1

\* the failure conditions of the three stages (section 4.1 of the spec), as
\* met by the entry in the pipeline
ImportFailureConditions == {"missing", "unreadable", "noplugin", "loadraise"}
ImportFailure == last.imp \in ImportFailureConditions
SimplifyFailure ==
  /\ last.simp # "none"
  /\ p_filter_action = "nullptr" \/ last.simp \in {"bad_alloc", "MLException"}
ExportFailure == last.exp \in {"noplugin", "saveraise", "textureraise"}

\* C2: a file that meets a failure condition of its import, simplify or
\* export stage never halts the run, and a run that ends has attempted the
\* import of every matching file.
C2_FailureNeverHaltsRun ==
  /\ (ImportFailure \/ SimplifyFailure \/ ExportFailure) => pc # "crashed"
  /\ pc = "done" => MatchingFiles(FsAtLoopStart) \subseteq DOMAIN status

\* C3: a file that is missing, unreadable, without import plugin, or whose
\* load raises, is an import failure: fail_count goes up by one, one warning
\* "import error" with its path is logged, neither simplify nor export runs
\* for it, and the loop goes on.
C3_ImportFailureCounted ==
  ImportFailure =>
    /\ status[last.path] = "ImportFailed"
    /\ fail_count = last.f0 + 1
    /\ success_count = last.s0
    /\ LoggedOnce(last.path, FailEvent(last.f0 + 1, last.s0, "import error", last.path))
    /\ last.simp = "none" /\ last.mirror = "none" /\ last.exp = "none"
    /\ pc \in {"loop", "done"}

\* C4: for an imported file (its mesh is loaded), a missing simplification
\* filter or an apply that raises is a simplify failure: fail_count goes up
\* by one, one warning "simplification error" is logged, the export stage
\* does not run for it, and the loop goes on.
C4_SimplifyFailureCounted ==
  (last.imp = "ok" /\ SimplifyFailure) =>
    /\ status[last.path] = "SimplifyFailed"
    /\ fail_count = last.f0 + 1
    /\ success_count = last.s0
    /\ LoggedOnce(last.path,
                  FailEvent(last.f0 + 1, last.s0, "simplification error", last.path))
    /\ last.mirror = "none" /\ last.exp = "none"
    /\ pc \in {"loop", "done"}

\* the output path section 3 of the spec gives source file p: the
\* destination root, then p's path below the source root, with ".obj" in
\* place of what follows the last '.' of its name
ExpectedOutput(p) ==
  LET below == SubSeq(p, Len(Src) + 1, Len(p))
      name  == below[Len(below)]
      stem  == SubSeq(name, 1, LastIndexOf(name, ".") - 1)
  IN Dst \o SubSeq(below, 1, Len(below) - 1) \o << stem \o Str_dotobj >>

\* C5: when export_mesh is about to be called for a source file, the output
\* path is the destination root joined with the file's path relative to the
\* source root, with extension .obj, and its parent directory exists.
C5_MirroredOutputPath ==
  pc = "export" =>
    /\ output_file_path = ExpectedOutput(input_file_path)
    /\ is_directory(fs, parent_path(output_file_path))
    /\ IsPrefix(Dst, output_file_path)

\* a file of a subdirectory of the source root is about to be exported, into
\* a directory the run has made
C5_Witness ==
  /\ pc = "export"
  /\ Len(input_file_path) > Len(Src) + 1
  /\ fs[parent_path(output_file_path)].gen = "run"
  /\ Src # Dst

\* import_mesh returned true for the entry in the pipeline
ImportReturnedTrue == last.imp \in {"ok", "zeromesh", "loadraise"}
ExportCapability == Str_obj \in plugin_manager.output
Exported == {p \in DOMAIN status : status[p] = "Exported"}

\* C6: a file is counted and logged as a success (with its source path and
\* its output path) exactly when its import and simplify stages succeeded,
\* an export plugin exists for obj and neither save nor saveTextures raised;
\* when the export plugin is missing or one of them raises, it is counted as
\* a failure and "export error" is logged.
C6_SuccessIffExported ==
  /\ success_count = Cardinality(Exported)
  /\ \A i \in 1..Len(log) :
       log[i].msg = "simplification success" => log[i].path \in Exported
  /\ (last.path # NoPath /\ last.exp \in {"none", "crash"}) =>
       /\ last.path \notin Exported
       /\ success_count = last.s0
  /\ last.exp \notin {"none", "crash"} =>
       /\ ImportReturnedTrue /\ last.simp = "ok"
       /\ last.path \in Exported <=>
            (ExportCapability /\ last.exp \notin {"saveraise", "textureraise", "empty"})
       /\ IF last.path \in Exported
          THEN /\ success_count = last.s0 + 1
               /\ fail_count = last.f0
               /\ LoggedOnce(last.path,
                             SuccessEvent(last.f0, last.s0 + 1, last.path,
                                          ExpectedOutput(last.path)))
               /\ fs[ExpectedOutput(last.path)] = Written("mesh", last.path)
          ELSE /\ status[last.path] = "ExportFailed"
               /\ fail_count = last.f0 + 1
               /\ success_count = last.s0
               /\ LoggedOnce(last.path,
                             FailEvent(last.f0 + 1, last.s0, "export error", last.path))

\* a second file has been exported after a first one failed at export
C6_Witness ==
  /\ last.path \in Exported
  /\ last.imp = "ok"
  /\ last.f0 = 1
  /\ \E p \in DOMAIN status : status[p] = "ExportFailed"
  /\ ~ub

\* C7: for the file about to be exported, what export_mesh returns when no
\* export plugin is registered differs from what it returns when the
\* plugin's save raises (and likewise import_mesh for a missing import
\* plugin and a load that raises), so that main can log the two differently.
C7_DistinctGatewayErrors ==
  pc = "export" =>
    LET without == [plugin_manager EXCEPT !.output = {}, !.input = {}]
        with    == [plugin_manager EXCEPT !.output = {Str_obj},
                                          !.input = {suffix(filename(input_file_path))}]
    IN /\ export_mesh(output_file_path, without, fs, input_file_path, "ok", "none").ret
            # export_mesh(output_file_path, with, fs, input_file_path, "MLException", "none").ret
       /\ import_mesh(input_file_path, without, fs, "ok", 1, FALSE).ret
            # import_mesh(input_file_path, with, fs, "ok", 1, TRUE).ret

\* a lower-case fold of the letters of the model's names
Fold(c) ==
  CASE c = "D" -> "d" [] c = "S" -> "s" [] c = "O" -> "o" [] c = "B" -> "b"
    [] c = "J" -> "j" [] OTHER -> c
EqualIgnoringCase(a, b) ==
  Len(a) = Len(b) /\ \A i \in 1..Len(a) : Fold(a[i]) = Fold(b[i])
PassesFilter(p) ==
  EqualIgnoringCase(extension(filename(p)), source_model_file_extension)
Terminal == {"Exported", "ImportFailed", "SimplifyFailed", "ExportFailed"}

\* C8: an entry the traversal yields enters the pipeline exactly when it is
\* no directory and its extension equals the filter ignoring case; an entry
\* in the pipeline whose own extension token has no import plugin ends as an
\* import failure; what does not pass the filter is never imported, never
\* exported and in neither counter.
C8_FilterAndCapability ==
  /\ DOMAIN status \subseteq visited
  /\ \A p \in visited :
       p \in DOMAIN status <=> (~is_directory(fs, p) /\ PassesFilter(p))
  /\ \A p \in DOMAIN status :
       (status[p] # "Discovered" /\ suffix(filename(p)) \notin plugin_manager.input)
         => status[p] = "ImportFailed"
  /\ fail_count = Cardinality({p \in DOMAIN status : status[p] \in Terminal \ {"Exported"}})
  /\ success_count = Cardinality(Exported)
  /\ \A i \in 1..Len(log) : log[i].path # NoPath => PassesFilter(log[i].path)
  /\ \A q \in DOMAIN fs : fs[q].gen \in {"mesh", "tex"} => PassesFilter(fs[q].from)

\* with the filter .3ds, a.3DS has entered the pipeline and has failed at
\* import for want of a plugin for "3DS", and z.obj has been passed over
C8_Witness ==
  /\ source_model_file_extension = <<".", "3", "d", "s">>
  /\ \E p \in DOMAIN status :
       /\ filename(p) = Str_a3DS
       /\ status[p] = "ImportFailed"
       /\ last.path = p /\ last.imp = "noplugin"
  /\ \E q \in visited : filename(q) = Str_zobj /\ q \notin DOMAIN status
  /\ fail_count = 1 /\ success_count = 0

\* C9: after the destination setup nothing that was under the destination
\* root before the run is left: the destination tree holds the root, and
\* below it only the directories and files this run has made for the
\* entries it has processed.
C9_DestinationHoldsOnlyThisRun ==
  pc # "start" =>
    \A p \in DOMAIN fs :
      IsPrefix(Dst, p) =>
        /\ fs[p].gen # "pre"
        /\ p # Dst =>
             \E e \in DOMAIN status :
               \/ fs[p].kind = "file" /\ fs[p].from = e
                    /\ parent_path(p) = parent_path(ExpectedOutput(e))
               \/ fs[p].kind = "dir" /\ IsPrefix(p, parent_path(ExpectedOutput(e)))

\* a run into a destination that held a file of an earlier run has ended,
\* with an output written
C9_Witness ==
  /\ pc = "done"
  /\ Src # Dst
  /\ \E p \in DOMAIN fs0 : IsPrefix(Dst, p) /\ p # Dst /\ ~IsPrefix(Src, p)
  /\ Exported # {}

\* the transitions of section 4.4 of the spec
Transitions ==
  { <<"Discovered", "Imported">>, <<"Imported", "Simplified">>,
    <<"Simplified", "Exported">>, <<"Discovered", "ImportFailed">>,
    <<"Imported", "SimplifyFailed">>, <<"Simplified", "ExportFailed">> }
StatusStep ==
  \A p \in DOMAIN status' :
    IF p \in DOMAIN status
    THEN status'[p] = status[p] \/ <<status[p], status'[p]>> \in Transitions
    ELSE status'[p] = "Discovered"

\* C10: an entry's state changes only along the transitions of section 4.4,
\* an entry never leaves a terminal state or comes back to Discovered, and
\* when the run is over every discovered entry is in a terminal state.
C10_EntryStateMachine ==
  /\ [][StatusStep]_vars
  /\ [](Finished => \A p \in DOMAIN status : status[p] \in Terminal)

\* what one step may do to the counters and to the set of processed entries
CounterStep ==
  /\ success_count' >= success_count
  /\ fail_count' >= fail_count
  /\ (success_count' + fail_count') <= (success_count + fail_count) + 1
  /\ (success_count' + fail_count') # (success_count + fail_count) =>
       /\ pc \in {"import", "simplify", "export"} /\ pc' = "loop"
       /\ status[input_file_path] \notin Terminal
       /\ status'[input_file_path] \in Terminal
  /\ (pc = "loop" /\ pc' = "import") => input_file_path' \notin DOMAIN status

\* C11: the two counters never decrease; processing one entry raises exactly
\* one of success_count and fail_count by exactly one (no entry raises both,
\* none raises a counter twice), and no entry is processed twice.
C11_CountedExactlyOnce ==
  /\ [][CounterStep]_vars
  /\ [](last.path # NoPath =>
          success_count + fail_count =
            last.s0 + last.f0 + (IF status[last.path] \in Terminal THEN 1 ELSE 0))
  /\ [](success_count + fail_count =
          Cardinality({p \in DOMAIN status : status[p] \in Terminal}))

\* a run has ended with one entry counted as a success and one as a failure
C11_Witness ==
  /\ pc = "done" /\ ~ub
  /\ success_count = 1 /\ fail_count = 1

Failed == {p \in DOMAIN status : status[p] \in Terminal \ {"Exported"}}
\* the directories below the destination root that lead to e's output
MirroredDirectories(e) ==
  {q \in Prefixes(parent_path(ExpectedOutput(e))) : IsPrefix(Dst, q) /\ q # Dst}

\* C12: an entry counted as a failure leaves nothing in the destination
\* tree: no output mesh file or texture file written for it, and no directory
\* made by the run that leads to its output only (stated for the runs that
\* go through no undefined behaviour).
C12_NoPartialOutput ==
  ~ub =>
    \A e \in Failed :
      /\ \A q \in DOMAIN fs : fs[q].kind = "file" => fs[q].from # e
      /\ \A q \in MirroredDirectories(e) :
           (q \in DOMAIN fs /\ fs[q] = RunDir) =>
             \E e2 \in Exported : q \in MirroredDirectories(e2)

\* the face count the target is computed from, and the -f option
BaseFaces == IF cm.sfn > 0 THEN cm.sfn ELSE cm.fn
TargetFaceNum == simplification_parameters.TargetFaceNum

\* C13: with no face selection, TargetFaceNum is round(n * p/100), an integer
\* nearest to the face count n times the ratio p/100, for every n >= 0 and
\* every p in 1..100.
C13_TargetIsRounded ==
  (simplification_parameters.built /\ cm.sfn = 0) =>
    /\ 2 * (100 * TargetFaceNum) <= 2 * (cm.fn * target_face_ratio_parameter) + 100
    /\ 2 * (cm.fn * target_face_ratio_parameter) <= 2 * (100 * TargetFaceNum) + 100

\* C14: Selected is true exactly when the mesh has selected faces (sfn > 0);
\* TargetFaceNum is then computed from the selected face count, and from the
\* total face count when nothing is selected: it is the count times p/100
\* without its fraction, or one less where the float product falls short.
C14_SelectedScopesTarget ==
  simplification_parameters.built =>
    /\ simplification_parameters.Selected <=> cm.sfn > 0
    /\ 100 * TargetFaceNum <= BaseFaces * target_face_ratio_parameter
    /\ BaseFaces * target_face_ratio_parameter <= 100 * TargetFaceNum + 100
    /\ TargetFaceNum <= BaseFaces

\* parameters have been built for a mesh with fewer faces selected than it
\* has, with a target above zero
C14_Witness ==
  /\ simplification_parameters.built
  /\ cm.sfn > 0 /\ cm.sfn < cm.fn
  /\ simplification_parameters.Selected
  /\ TargetFaceNum > 0

SummaryEvents == {i \in 1..Len(log) : log[i].msg = "simplifying ends"}
StartEvents == {i \in 1..Len(log) : log[i].msg = "simplifying starts"}
PerFileEvents == {i \in 1..Len(log) : log[i].path # NoPath}
\* the pairs of counters a run of the model can end with
CounterPairs == (0..(MaxFiles + MaxDepth)) \X (0..(MaxFiles + MaxDepth))

\* the summary event is the one event "simplifying ends", and it is the last
\* event of the log, after the start event and every per-file event
SummaryIsLast ==
  /\ SummaryEvents = {Len(log)}
  /\ StartEvents = {1}
  /\ \A i \in PerFileEvents : 1 < i /\ i < Len(log)

\* the result of a run carries its counters: they can be read off it, that
\* is, a run that ends with other counters has another result
ResultCarriesCounters ==
  \A other \in CounterPairs :
    other # <<success_count, fail_count>> =>
      RunResult(other[1], other[2]) # RunResult(success_count, fail_count)

\* C15: when the traversal has completed, exactly one terminal summary event
\* has been emitted, after the start event and after every per-file event,
\* and the result of the run carries the final success and failure counters.
C15_SummaryAndResult ==
  pc = "done" => (SummaryIsLast /\ ResultCarriesCounters)

\* the per-file events among the first i events of the log, by severity
WarnsUpTo(i) == {j \in PerFileEvents : j <= i /\ log[j].sev = "warn"}
InfosUpTo(i) == {j \in PerFileEvents : j <= i /\ log[j].sev = "info"}

\* what the per-file events of the log are like in one state
PerFileEventsAsCounted ==
  /\ \A i \in PerFileEvents :
       /\ log[i].fail = Cardinality(WarnsUpTo(i))
       /\ log[i].succ = Cardinality(InfosUpTo(i))
       /\ log[i].fail + log[i].succ = Cardinality({j \in PerFileEvents : j <= i})
       /\ log[i].path \in DOMAIN status
       /\ log[i].sev = "warn" <=> status[log[i].path] \in Terminal \ {"Exported"}
       /\ log[i].sev = "info" <=> status[log[i].path] = "Exported"
       /\ log[i].sev = "warn" =>
            /\ log[i].msg = "simplification fail"
            /\ log[i].reason \in {"import error", "simplification error", "export error"}
       /\ log[i].sev = "info" =>
            /\ log[i].msg = "simplification success"
            /\ log[i].out = ExpectedOutput(log[i].path)
  /\ \A p \in DOMAIN status : status[p] \in Terminal => Cardinality(EventsOf(p)) = 1
  /\ (PerFileEvents # {} /\ pc \in {"loop", "done"}) =>
       LET i == CHOOSE j \in PerFileEvents : \A k \in PerFileEvents : k <= j
       IN log[i].fail = fail_count /\ log[i].succ = success_count

\* C16: every per-file event carries the pair (failure count / success count)
\* as it stands right after that file's own increment, so that the two
\* numbers of the n-th per-file event sum to n; it is a warning exactly when
\* the file failed and an info exactly when it succeeded; it names the source
\* file, and the output path on success.
C16_PerFileEventCarriesCounters == []PerFileEventsAsCounted

\* a failure has been logged between two successes
C16_Witness ==
  /\ ~ub
  /\ \E i, j, k \in PerFileEvents :
       /\ i < j /\ j < k
       /\ log[i].sev = "info" /\ log[j].sev = "warn" /\ log[k].sev = "info"

\* C17: whatever the outcomes of the stages (a load that raises, a file
\* with zero meshes, no simplification filter, ...), each stage completes or
\* fails recoverably, and the run reaches the summary event "simplifying
\* ends": once a file is in the pipeline the run is either over with its
\* summary logged or has a next step to take.
C17_RunReachesSummary ==
  last.path # NoPath =>
    \/ pc = "done" /\ log[Len(log)].msg = "simplifying ends"
    \/ pc # "done" /\ ENABLED Next

\* the entries that are in the pipeline: discovered, in no terminal state
InPipeline == {p \in DOMAIN status : status[p] \notin Terminal}

\* one entry at a time, each on its own document
OneEntryAtATime ==
  /\ Cardinality(InPipeline) <= 1
  /\ \A p \in InPipeline : p = input_file_path /\ pc \notin {"start", "loop", "done"}
  /\ pc = "import" =>
       /\ mesh_document.meshes = 0
       /\ ~simplification_parameters.built
       /\ InPipeline = {input_file_path}
       /\ \A p \in DOMAIN status \ {input_file_path} : status[p] \in Terminal
  /\ pc \in {"start", "loop", "done"} =>
       /\ mesh_document.meshes = 0
       /\ InPipeline = {}
  /\ mesh_document.meshes > 0 => last.path = input_file_path /\ last.imp = "ok"

\* C18: processing is strictly sequential: at most one entry is in the
\* pipeline and only its document holds meshes; the import of an entry
\* begins on a new, empty document, when every entry before it is in a
\* terminal state; between two entries no document is live.
C18_StrictlySequential == []OneEntryAtATime

\* the import of a second entry begins after a first one was exported
C18_Witness ==
  /\ pc = "import"
  /\ Exported # {}
  /\ ~ub

\* the output mesh files of successful entries in the destination tree
OutputMeshFiles ==
  {q \in DOMAIN fs : IsPrefix(Dst, q) /\ fs[q].gen = "mesh" /\ fs[q].from \in Exported}

\* C19: the entries counted as successes are written to distinct output
\* paths: when the run has ended, the destination tree holds as many output
\* mesh files (of successful entries) as success_count, and the output of
\* each successful entry is the file written for it (stated for the runs
\* that go through no undefined behaviour).
C19_DistinctOutputs ==
  (pc = "done" /\ ~ub) =>
    /\ Cardinality(OutputMeshFiles) = success_count
    /\ \A e \in Exported :
         /\ ExpectedOutput(e) \in DOMAIN fs
         /\ fs[ExpectedOutput(e)] = Written("mesh", e)
    /\ \A e1, e2 \in Exported : e1 # e2 => ExpectedOutput(e1) # ExpectedOutput(e2)

\* the files that were under the source root before the run
SourceFiles == {p \in DOMAIN fs0 : IsPrefix(Src, p) /\ fs0[p].kind = "file"}

\* C20: a run leaves the source tree unchanged: every file that was under
\* the source root before the run is still there, with the content it had,
\* whatever the destination root is (apart from, equal to, around or inside
\* the source root).
C20_SourceTreeUnchanged ==
  \A p \in SourceFiles : p \in DOMAIN fs /\ fs[p] = fs0[p]

====
